---- MODULE Spec2Model ----
(***************************************************************************)
(* Model of the Steam time-series ingestion code:                          *)
(*   src/src/ingestion/ingestion_pipeline.py  (IngestionPipeline)          *)
(*   src/src/ingest_data.py                   (the stand-alone script)     *)
(*                                                                         *)
(* Timestamps are whole seconds since an arbitrary origin.  A data frame   *)
(* is its set of value columns (the series labels) and its sequence of     *)
(* rows; a row is identified by its timestamp.  The code never reads or    *)
(* writes a cell value, so the values themselves are left out.             *)
(***************************************************************************)
EXTENDS Integers, Sequences, FiniteSets, TLC

\* ------------------------------------------------------------------ bounds
\* Bandwidth instants lie in the 10-minute slots 0..MaxSlot.
MaxSlot == 2
\* Support instants lie in the days 0..MaxDay.
MaxDay == 2
\* A provider response carries at most MaxBatchRows distinct timestamps.
MaxBatchRows == 2

\* ------------------------------------------------------- program constants
\* candidates = [v1, v2, v3, v4]
NumCandidates == 4
\* candidates = [v1, v2, v3] in the stand-alone script
ScriptNumCandidates == 3
\* assert diff_minutes <= 10
MaxGapMinutes == 10
\* assert diff_days <= 1
MaxGapDays == 1
\* end_timestamp_support_new.hour == 7
AnchorHour == 7

SecondsPerMinute == 60
SecondsPerHour == 60 * 60
SecondsPerDay == 24 * 60 * 60

\* ------------------------------------------------------------ input space
\* Length of one bandwidth slot of the provider's grid, in seconds.
SlotSeconds == MaxGapMinutes * SecondsPerMinute
\* An instant half a minute off the grid (the provider sends epoch
\* milliseconds, nothing forces them onto the grid).
OffGridSeconds == SecondsPerMinute \div 2

BandwidthTimes ==
    {k * SlotSeconds : k \in 0..MaxSlot} \cup {SlotSeconds + OffGridSeconds}

\* Daily observations at the anchor hour, and one taken twelve hours later.
SupportTimes ==
    {d * SecondsPerDay + AnchorHour * SecondsPerHour : d \in 0..MaxDay}
        \cup {SecondsPerDay + (AnchorHour + 12) * SecondsPerHour}

\* The region labels the historical bandwidth record was built with.
ExpectedRegions == {"North America", "Europe"}
RegionSets == {ExpectedRegions, {"North America"}}
SupportLabels == {"Submitted"}

TimeSets(T) == {S \in SUBSET T : Cardinality(S) \in 1..MaxBatchRows}

\* A provider response: the labels of its series and the timestamps of
\* their data points (every series of a response has the same timestamps).
BandwidthResponses == [labels : RegionSets, times : TimeSets(BandwidthTimes)]
SupportResponses == [labels : {SupportLabels}, times : TimeSets(SupportTimes)]

\* --------------------------------------------------------------- helpers
SetMin(S) == CHOOSE x \in S : \A y \in S : x <= y
SetMax(S) == CHOOSE x \in S : \A y \in S : x >= y

RECURSIVE SortValues(_)
\* df.sort_values("Timestamp") on the joined timestamps
SortValues(S) ==
    IF S = {} THEN <<>>
    ELSE LET m == SetMin(S) IN <<m>> \o SortValues(S \ {m})

\* The per-series frames outer-joined on Timestamp, then sorted.
ParseResponse(resp) ==
    LET ts == SortValues(resp.times)
    IN  [columns |-> resp.labels,
         rows |-> [k \in 1..Len(ts) |-> [Timestamp |-> ts[k]]]]

\* Every response a request can return, with the frame parsed from it.
BandwidthFrames == [resp \in BandwidthResponses |-> ParseResponse(resp)]
SupportFrames == [resp \in SupportResponses |-> ParseResponse(resp)]

\* df["Timestamp"].min()
TimestampMin(df) == SetMin({df.rows[k].Timestamp : k \in DOMAIN df.rows})

\* Variant of TimestampMax: .min() written where .max() is meant.
TimestampMaxAsMin(df) == SetMin({df.rows[k].Timestamp : k \in DOMAIN df.rows})
\* df["Timestamp"].max()
TimestampMax(df) == SetMax({df.rows[k].Timestamp : k \in DOMAIN df.rows})

\* (start - end).total_seconds() // 60   (floor division)
DiffMinutes(start, end) == (start - end) \div SecondsPerMinute

\* (start - end).days   (whole days, floor)
DiffDays(start, end) == (start - end) \div SecondsPerDay

\* Timestamp.hour
Hour(ts) == (ts \div SecondsPerHour) % 24

\* Variant of Anchored: the hour of the batch's end is not looked at.
AnchoredAlways(ts) == TRUE
\* end_timestamp_support_new.hour == 7
Anchored(ts) == Hour(ts) = AnchorHour

\* Variant of RowsAfter: >= written where > is meant.
RowsAfterInclusive(df, ts) ==
    [columns |-> df.columns,
     rows |-> SelectSeq(df.rows, LAMBDA r : r.Timestamp >= ts)]
\* new_df.loc[new_df["Timestamp"] > end_timestamp_old]
RowsAfter(df, ts) ==
    [columns |-> df.columns,
     rows |-> SelectSeq(df.rows, LAMBDA r : r.Timestamp > ts)]

\* pd.concat([old_df, new_df], axis=0, ignore_index=True): the union of the
\* columns, the rows of old_df followed by the rows of new_df.
Concat(old_df, new_df) ==
    [columns |-> old_df.columns \cup new_df.columns,
     rows |-> old_df.rows \o new_df.rows]

\* No frame (None), no file, and a file holding a frame.
NoDf == [columns |-> {}, rows |-> <<>>]
NoFile == [exists |-> FALSE, df |-> NoDf]
File(df) == [exists |-> TRUE, df |-> df]

\* ------------------------------------------------------------------ state
VARIABLES
    bandwidth_csv,   \* the file at BANDWIDTH_USE_DATA_PATH
    support_csv,     \* the file at SUPPORT_REQUESTS_DATA_PATH
    pc,              \* position of the current IngestionPipeline.run()
    v,               \* candidates already requested by the probe loop
    newest_df,       \* newest_df of __get_newest_bandwidth_data (NoDf = None)
    support_df,      \* result of __get_newest_support_data
    ts_bandwidth,    \* end_timestamp_bandwidth_old, start_/end_timestamp_bandwidth_new
    ts_support,      \* end_timestamp_support_old, start_/end_timestamp_support_new
    error,           \* the exception the last run() ended with
    script           \* the stand-alone script: its file data/bandwidths.csv,
                     \* its newest_df, loop counter, timestamps and exception

vars == <<bandwidth_csv, support_csv, pc, v, newest_df, support_df,
          ts_bandwidth, ts_support, error, script>>

\* The timestamps __merge_with_old reads off the old record and the new frame.
NoTs == [end_old |-> -1, start_new |-> -1, end_new |-> -1]
Timestamps(old_df, new_df) ==
    [end_old |-> TimestampMax(old_df),
     start_new |-> TimestampMin(new_df),
     end_new |-> TimestampMax(new_df)]

\* The record both feeds start from: one row on the grid / at the anchor hour.
InitialBandwidth ==
    [columns |-> ExpectedRegions, rows |-> <<[Timestamp |-> 0]>>]
InitialSupport ==
    [columns |-> SupportLabels,
     rows |-> <<[Timestamp |-> AnchorHour * SecondsPerHour]>>]

\* ------------------------------------------------- IngestionPipeline.run
\* One iteration of the probe loop: keep the frame with the latest last
\* timestamp (most_recent_timestamp is always newest_df's last timestamp).
KeepNewest(kept, df) ==
    IF kept = NoDf \/ TimestampMax(df) > TimestampMax(kept) THEN df ELSE kept

ProbeCandidate ==
    /\ pc = "bandwidth"
    /\ \E resp \in BandwidthResponses :
         newest_df' = KeepNewest(newest_df, BandwidthFrames[resp])
    /\ v' = v + 1
    /\ pc' = IF v' = NumCandidates THEN "support" ELSE "bandwidth"
    /\ UNCHANGED <<bandwidth_csv, support_csv, support_df, ts_bandwidth,
                   ts_support, error, script>>

GetNewestSupportData ==
    /\ pc = "support"
    /\ \E resp \in SupportResponses : support_df' = SupportFrames[resp]
    /\ pc' = "merge"
    /\ UNCHANGED <<bandwidth_csv, support_csv, v, newest_df, ts_bandwidth,
                   ts_support, error, script>>

\* Variant of MergeBandwidth: the file is written before the gap assertion.
MergeBandwidthWriteFirst(old_df, new_df) ==
    LET t == Timestamps(old_df, new_df)
    IN  IF t.end_new > t.end_old
        THEN [df |-> Concat(old_df, RowsAfter(new_df, t.end_old)),
              raised |-> ~(DiffMinutes(t.start_new, t.end_old) <= MaxGapMinutes)]
        ELSE [df |-> old_df, raised |-> FALSE]
\* The bandwidth half of __merge_with_old: the frame on disk afterwards and
\* whether the "Data gap exists" assertion failed.
MergeBandwidth(old_df, new_df) ==
    LET t == Timestamps(old_df, new_df)
    IN  IF t.end_new > t.end_old
        THEN IF DiffMinutes(t.start_new, t.end_old) <= MaxGapMinutes
             THEN [df |-> Concat(old_df, RowsAfter(new_df, t.end_old)),
                   raised |-> FALSE]
             ELSE [df |-> old_df, raised |-> TRUE]
        ELSE [df |-> old_df, raised |-> FALSE]

\* The support half of __merge_with_old.
MergeSupport(old_df, new_df) ==
    LET t == Timestamps(old_df, new_df)
    IN  IF t.end_new > t.end_old /\ Anchored(t.end_new)
        THEN IF DiffDays(t.start_new, t.end_old) <= MaxGapDays
             THEN [df |-> Concat(old_df, RowsAfter(new_df, t.end_old)),
                   raised |-> FALSE]
             ELSE [df |-> old_df, raised |-> TRUE]
        ELSE [df |-> old_df, raised |-> FALSE]

\* __merge_with_old as a whole: bandwidth first, then support; the first
\* exception (a missing file, a failed assertion) ends the call and the run.
MergeWithOld ==
    /\ pc = "merge"
    /\ pc' = "done"
    /\ IF ~bandwidth_csv.exists
       THEN /\ error' = "bandwidth_missing"
            /\ ts_bandwidth' = NoTs
            /\ ts_support' = NoTs
            /\ UNCHANGED <<bandwidth_csv, support_csv>>
       ELSE LET b == MergeBandwidth(bandwidth_csv.df, newest_df)
            IN  /\ bandwidth_csv' = File(b.df)
                /\ ts_bandwidth' = Timestamps(bandwidth_csv.df, newest_df)
                /\ IF b.raised
                   THEN /\ error' = "bandwidth_gap"
                        /\ ts_support' = NoTs
                        /\ UNCHANGED support_csv
                   ELSE IF ~support_csv.exists
                   THEN /\ error' = "support_missing"
                        /\ ts_support' = NoTs
                        /\ UNCHANGED support_csv
                   ELSE LET s == MergeSupport(support_csv.df, support_df)
                        IN  /\ support_csv' = File(s.df)
                            /\ ts_support' =
                                   Timestamps(support_csv.df, support_df)
                            /\ error' = IF s.raised THEN "support_gap"
                                        ELSE "none"
    /\ newest_df' = NoDf
    /\ support_df' = NoDf
    /\ UNCHANGED <<v, script>>

\* run() has returned or raised: the process ends, its locals are gone, and
\* the scheduler starts the next run.
Exit ==
    /\ pc = "done"
    /\ pc' = "bandwidth"
    /\ v' = 0
    /\ ts_bandwidth' = NoTs
    /\ ts_support' = NoTs
    /\ error' = "none"
    /\ UNCHANGED <<bandwidth_csv, support_csv, newest_df, support_df, script>>

\* --------------------------------------------------- ingest_data.py
NoScript == [csv |-> NoFile, df |-> NoDf, v |-> 0, ts |-> NoTs,
             pc |-> "fetch", error |-> "none"]

\* One iteration of get_new_data's loop.
ScriptProbeCandidate ==
    /\ script.pc = "fetch"
    /\ \E resp \in BandwidthResponses :
         script' = [script EXCEPT
                      !.df = KeepNewest(script.df, BandwidthFrames[resp]),
                      !.v = script.v + 1,
                      !.pc = IF script.v + 1 = ScriptNumCandidates
                             THEN "merge" ELSE "fetch"]
    /\ UNCHANGED <<bandwidth_csv, support_csv, pc, v, newest_df, support_df,
                   ts_bandwidth, ts_support, error>>

\* merge_with_old of the script on an existing file: the gap check comes
\* first and is not guarded by a comparison of the end timestamps.
ScriptMerge(old_df, new_df) ==
    LET t == Timestamps(old_df, new_df)
    IN  IF DiffMinutes(t.start_new, t.end_old) <= MaxGapMinutes
        THEN [df |-> Concat(old_df, RowsAfter(new_df, t.end_old)),
              raised |-> FALSE]
        ELSE [df |-> old_df, raised |-> TRUE]

ScriptMergeWithOld ==
    /\ script.pc = "merge"
    /\ IF ~script.csv.exists
       THEN script' = [script EXCEPT !.csv = File(script.df),
                                     !.df = NoDf,
                                     !.ts = NoTs,
                                     !.error = "none",
                                     !.pc = "done"]
       ELSE LET m == ScriptMerge(script.csv.df, script.df)
            IN  script' = [script EXCEPT
                             !.csv = File(m.df),
                             !.df = NoDf,
                             !.ts = Timestamps(script.csv.df, script.df),
                             !.error = IF m.raised THEN "gap" ELSE "none",
                             !.pc = "done"]
    /\ UNCHANGED <<bandwidth_csv, support_csv, pc, v, newest_df, support_df,
                   ts_bandwidth, ts_support, error>>

\* The script process ends; the next invocation starts afresh.
ScriptExit ==
    /\ script.pc = "done"
    /\ script' = [NoScript EXCEPT !.csv = script.csv]
    /\ UNCHANGED <<bandwidth_csv, support_csv, pc, v, newest_df, support_df,
                   ts_bandwidth, ts_support, error>>

\* ------------------------------------------------------- specifications
Init ==
    /\ bandwidth_csv \in {NoFile, File(InitialBandwidth)}
    /\ support_csv \in {NoFile, File(InitialSupport)}
    /\ pc = "bandwidth"
    /\ v = 0
    /\ newest_df = NoDf
    /\ support_df = NoDf
    /\ ts_bandwidth = NoTs
    /\ ts_support = NoTs
    /\ error = "none"
    /\ script = NoScript

Next ==
    \/ ProbeCandidate
    \/ GetNewestSupportData
    \/ MergeWithOld
    \/ Exit

\* The scheduled pipeline.
Spec == Init /\ [][Next]_vars

ScriptNext ==
    \/ ScriptProbeCandidate
    \/ ScriptMergeWithOld
    \/ ScriptExit

\* The stand-alone script, run repeatedly.
ScriptSpec == Init /\ [][ScriptNext]_vars

\* ----------------------------------------------------------------- claims
\* Vocabulary of the claims, stated on the rows themselves.
FirstTs(df) == df.rows[1].Timestamp
LastTs(df) == df.rows[Len(df.rows)].Timestamp
Ascending(df) ==
    \A k \in 1..(Len(df.rows) - 1) :
        df.rows[k].Timestamp < df.rows[k + 1].Timestamp
NewerRows(df, ts) == SelectSeq(df.rows, LAMBDA r : ~(r.Timestamp <= ts))
TenMinutes == 10 * SecondsPerMinute
\* The merge is about to read the bandwidth record.
BandwidthReached == pc = "merge" /\ bandwidth_csv.exists
\* The merge gets as far as the support record in this step.
SupportReached ==
    /\ pc = "merge"
    /\ support_csv.exists
    /\ error' \notin {"bandwidth_missing", "bandwidth_gap"}

\* C1: with a bandwidth batch that ends after the record, the merge raises
\* the data-gap error exactly when the batch starts more than 10 minutes
\* after the record's end.
C1_GapEnforcement ==
    [][(BandwidthReached /\ LastTs(newest_df) > LastTs(bandwidth_csv.df))
         => ((error' = "bandwidth_gap")
               <=> (FirstTs(newest_df) - LastTs(bandwidth_csv.df)
                      > TenMinutes))]_vars

\* C2: a bandwidth batch whose label set is not the expected one is never
\* merged: the bandwidth record is the same after the merge.
C2_CompletenessGate ==
    [][(BandwidthReached /\ newest_df.columns # ExpectedRegions)
         => bandwidth_csv' = bandwidth_csv]_vars

\* C3: adjacent rows of the bandwidth record are exactly 10 minutes apart.
C3_TenMinuteGrid ==
    bandwidth_csv.exists =>
        \A k \in 1..(Len(bandwidth_csv.df.rows) - 1) :
            bandwidth_csv.df.rows[k + 1].Timestamp
                - bandwidth_csv.df.rows[k].Timestamp = TenMinutes

\* C4: a gap failure of one feed does not keep the other feed from being
\* merged: when the bandwidth gap check fails and the support batch is newer
\* than its record, anchored and gap-free, the support record is updated in
\* that run; and when the support gap check fails, a mergeable bandwidth
\* batch has been merged.
C4_FeedIsolation ==
    [][pc = "merge"
         => /\ (/\ support_csv.exists
                /\ error' = "bandwidth_gap"
                /\ LastTs(support_df) > LastTs(support_csv.df)
                /\ Hour(LastTs(support_df)) = 7
                /\ FirstTs(support_df) - LastTs(support_csv.df)
                     <= SecondsPerDay)
                 => support_csv'.df.rows
                      = support_csv.df.rows
                          \o NewerRows(support_df, LastTs(support_csv.df))
            /\ (/\ error' = "support_gap"
                /\ LastTs(newest_df) > LastTs(bandwidth_csv.df))
                 => bandwidth_csv'.df.rows
                      = bandwidth_csv.df.rows
                          \o NewerRows(newest_df, LastTs(bandwidth_csv.df))]_vars

\* C5: whenever the merge of a feed raises the data-gap error, the record
\* of that feed is the record that existed before the merge.
C5_GapErrorLeavesRecord ==
    [][pc = "merge"
         => /\ error' = "bandwidth_gap" => bandwidth_csv' = bandwidth_csv
            /\ error' = "support_gap" => support_csv' = support_csv]_vars
C5_Witness ==
    /\ pc = "done"
    /\ error = "bandwidth_gap"
    /\ ts_bandwidth.start_new - ts_bandwidth.end_old > TenMinutes
    /\ ts_bandwidth.end_old = LastTs(bandwidth_csv.df)

\* C6: for either feed, a batch whose last timestamp is not after the
\* record's last timestamp leaves the record unchanged and raises no error;
\* and merging a batch a second time changes nothing.
C6_StaleMergeIsNoOp ==
    [][pc = "merge"
         => /\ (BandwidthReached
                  /\ LastTs(newest_df) <= LastTs(bandwidth_csv.df))
                 => /\ bandwidth_csv' = bandwidth_csv
                    /\ error' # "bandwidth_gap"
            /\ (SupportReached
                  /\ LastTs(support_df) <= LastTs(support_csv.df))
                 => /\ support_csv' = support_csv
                    /\ error' # "support_gap"
            /\ (BandwidthReached /\ error' # "bandwidth_gap")
                 => MergeBandwidth(bandwidth_csv'.df, newest_df)
                      = [df |-> bandwidth_csv'.df, raised |-> FALSE]
            /\ (SupportReached /\ error' # "support_gap")
                 => MergeSupport(support_csv'.df, support_df)
                      = [df |-> support_csv'.df, raised |-> FALSE]]_vars
C6_Witness ==
    /\ pc = "done"
    /\ error = "none"
    /\ ts_bandwidth.end_new < ts_bandwidth.end_old
    /\ ts_bandwidth.start_new > FirstTs(bandwidth_csv.df)
    /\ ts_bandwidth.end_old = LastTs(bandwidth_csv.df)
    /\ ts_support.end_new <= ts_support.end_old
    /\ ts_support.end_old = LastTs(support_csv.df)
    /\ Len(support_csv.df.rows) > 1

\* C7: a support batch whose latest timestamp is not at hour 7 is never
\* merged, even when it is newer than the record, and raises no gap error.
C7_AnchorGate ==
    [][(SupportReached /\ Hour(LastTs(support_df)) # 7)
         => /\ support_csv' = support_csv
            /\ error' # "support_gap"]_vars
C7_Witness ==
    /\ pc = "done"
    /\ error = "none"
    /\ Hour(ts_support.end_new) # 7
    /\ ts_support.end_new > ts_support.end_old
    /\ ts_support.end_old = LastTs(support_csv.df)

\* C8: an anchored support batch that ends after the record and starts
\* more than one day after the record's end fails with the data-gap error
\* and is not appended.
C8_SupportGapCheck ==
    [][(/\ SupportReached
        /\ LastTs(support_df) > LastTs(support_csv.df)
        /\ Hour(LastTs(support_df)) = 7
        /\ FirstTs(support_df) - LastTs(support_csv.df) > SecondsPerDay)
         => /\ error' = "support_gap"
            /\ support_csv' = support_csv]_vars

\* C9: when a feed has no record yet, the run does not fail and the batch
\* becomes the record.
C9_FirstWrite ==
    [][pc = "merge"
         => /\ ~bandwidth_csv.exists
                 => /\ error' # "bandwidth_missing"
                    /\ bandwidth_csv' = File(newest_df)
            /\ (~support_csv.exists /\ error' # "bandwidth_gap")
                 => /\ error' # "support_missing"
                    /\ support_csv' = File(support_df)]_vars

\* C10: a merge leaves the old record as a prefix of the new one and
\* appends exactly the batch rows later than the old end, in ascending
\* order; the record's last timestamp never decreases.
C10_AppendOnly ==
    [][/\ bandwidth_csv.exists
            => /\ bandwidth_csv'.exists
               /\ LastTs(bandwidth_csv'.df) >= LastTs(bandwidth_csv.df)
               /\ Ascending(bandwidth_csv'.df)
               /\ bandwidth_csv' # bandwidth_csv
                    => bandwidth_csv'.df.rows
                         = bandwidth_csv.df.rows
                             \o NewerRows(newest_df, LastTs(bandwidth_csv.df))
       /\ support_csv.exists
            => /\ support_csv'.exists
               /\ LastTs(support_csv'.df) >= LastTs(support_csv.df)
               /\ Ascending(support_csv'.df)
               /\ support_csv' # support_csv
                    => support_csv'.df.rows
                         = support_csv.df.rows
                             \o NewerRows(support_df, LastTs(support_csv.df))]_vars
C10_Witness ==
    /\ pc = "done"
    /\ error = "none"
    /\ ts_bandwidth.end_new > ts_bandwidth.end_old
    /\ ts_bandwidth.start_new < ts_bandwidth.end_old
    /\ LastTs(bandwidth_csv.df) = ts_bandwidth.end_new
    /\ ts_support.end_new > ts_support.end_old
    /\ ts_support.start_new <= ts_support.end_old
    /\ LastTs(support_csv.df) = ts_support.end_new

\* ------------------------------------------- the same, for the script
\* The script seeds a missing file with the batch and does not fail.
Script_FirstWrite ==
    [][(script.pc = "merge" /\ ~script.csv.exists)
         => /\ script'.csv = File(script.df)
            /\ script'.error = "none"]_vars

\* A gap error of the script leaves its file as it was.
Script_GapErrorLeavesRecord ==
    [][(script.pc = "merge" /\ script'.error = "gap")
         => script'.csv = script.csv]_vars

\* A batch that ends no later than the script's record changes nothing and
\* raises nothing.
Script_StaleMergeIsNoOp ==
    [][(/\ script.pc = "merge"
        /\ script.csv.exists
        /\ LastTs(script.df) <= LastTs(script.csv.df))
         => /\ script'.csv.df.rows = script.csv.df.rows
            /\ script'.error = "none"]_vars

====
